---- MODULE Spec2Model ----
(***************************************************************************)
(* A model of the ox_task job runner (src/src/ox_task): the task plan,     *)
(* the per-job sandbox provisioning, the command executor, the notifier    *)
(* lookup/dispatch and the run-all loop of the command line front end.     *)
(*                                                                         *)
(* Conventions.  A Python str is a sequence of tokens (<<>> is the empty   *)
(* string); an f-string is the sequence of its literal pieces and its      *)
(* interpolated values, so "the message contains the job name" is token    *)
(* membership.  A template reference is a token of RefTokens.  A dict      *)
(* whose order matters is a sequence of pairs/records; a result dict is a  *)
(* record whose DOMAIN is the set of keys present.                         *)
(***************************************************************************)
EXTENDS Integers, Sequences, FiniteSets, TLC

(***************************************************************************)
(* Bounds of the model.                                                    *)
(***************************************************************************)
\* largest exit status a completed process reports
MaxExitCode == 1
\* largest signal number that terminates a process (returncode = -signal)
MaxSignal == 1

ExitCodes == (0 - MaxSignal)..MaxExitCode

(***************************************************************************)
(* Python values.                                                          *)
(***************************************************************************)
\* Python's None where a str was expected (distinct from every str used)
PyNone == <<"<None>">>

\* Python truthiness of an Optional[str]
Truthy(s) == s # PyNone /\ s # <<>>

\* Python's `x or d`
PyOr(x, d) == IF Truthy(x) THEN x ELSE d

\* dict.update(): the entries of new override those of old
Update(old, new) == new @@ old

\* dict.get(key, default)
DictGet(d, key, default) == IF key \in DOMAIN d THEN d[key] ELSE default

\* a local variable: body applied to the value v, computed once
With(v, body(_)) == body(v)

NoExc == [type |-> "none", msg |-> <<>>]

Exc(type, msg) == [type |-> type, msg |-> msg]

\* repr() of a str key, as str(KeyError(key)) prints it
Repr(key) == <<"'", key, "'">>

\* str(exception)
ExcStr(e) == IF e.type = "KeyError" THEN Repr(e.msg[1]) ELSE e.msg

(***************************************************************************)
(* The task plan (core/models.py).                                         *)
(***************************************************************************)
\* TaskEnv: runtime, requirements, path, variables (insertion order kept)
TaskEnv(runtime, requirements, path, variables) ==
    [runtime |-> runtime, requirements |-> requirements,
     path |-> path, variables |-> variables]

\* a str-valued and a non-str-valued field of a TaskNote
StrVal(v) == [is_str |-> TRUE, v |-> v]
ObjVal(v) == [is_str |-> FALSE, v |-> v]

\* TaskJob: env, note, command, timeout (default 300), shell (default False)
DefaultTimeout == 300

TaskJob(name, env, note, command, timeout, shell) ==
    [name |-> name, env |-> env, note |-> note, command |-> command,
     timeout |-> timeout, shell |-> shell]

\* a command given as a list of argument templates / as one shell string
ListCommand(args) == [is_str |-> FALSE, parts |-> args]
StrCommand(text) == [is_str |-> TRUE, parts |-> text]

\* the backtick character, as a token
Backtick == "<backtick>"

\* the template references used by the plans, and the variable each names
RefTokens == {"${OX_TASK_JOB_NAME}", "$TEST_VAR", "${UNSET}", "$A"}

RefName(tok) ==
    CASE tok = "${OX_TASK_JOB_NAME}" -> "OX_TASK_JOB_NAME"
      [] tok = "$TEST_VAR" -> "TEST_VAR"
      [] tok = "$A" -> "A"
      [] OTHER -> "UNSET"

Envs ==
    [minimal_env |-> TaskEnv(PyNone, <<>>, PyNone, <<>>),
     test_python |-> TaskEnv(<<"python3">>, <<"requests", "click">>, PyNone,
        << <<"TEST_VAR", <<"test_value">> >>,
           <<"ST_PATH", <<Backtick, "echo /path/to/simple_tasks", Backtick>> >> >>),
     \* B refers to A, declared before it / after it
     ordered |-> TaskEnv(PyNone, <<>>, PyNone,
        << <<"A", <<"1">> >>, <<"B", <<"$A", "-2">> >> >>),
     reversed |-> TaskEnv(PyNone, <<>>, PyNone,
        << <<"B", <<"$A", "-2">> >>, <<"A", <<"1">> >> >>),
     \* declares the names the orchestrator itself sets
     shadow |-> TaskEnv(PyNone, <<>>, PyNone,
        << <<"OX_TASK_JOB_NAME", <<"spoofed">> >>, <<"PATH", <<"/opt/bin">> >> >>),
     \* a backtick command that reads a variable declared before it, and a
     \* value that is one backtick character
     tick |-> TaskEnv(PyNone, <<>>, PyNone,
        << <<"GREETING", <<"hello">> >>,
           <<"SHOUT", <<Backtick, "echo ", "$GREETING", Backtick>> >>,
           <<"LONE", <<Backtick>> >> >>)]

Notes ==
    [test_file |->
        [class_name |-> StrVal(<<"FileNotifier">>),
         description |-> ObjVal(<<"File-based notifier for testing">>),
         path |-> StrVal(<<"/tmp/ox_task_test_", "${OX_TASK_JOB_NAME}", ".txt">>)],
     tg |->
        [class_name |-> StrVal(<<"TelegramNotifier">>),
         token |-> StrVal(<<"$TEST_VAR">>),
         chat_id |-> StrVal(<<"42">>)],
     mail |->
        [class_name |-> StrVal(<<"GmailNotifier">>),
         to_email |-> StrVal(<<"a@example.org">>),
         from_email |-> StrVal(<<"b@example.org">>),
         app_passwd |-> StrVal(<<"${UNSET}">>)],
     simple_file_log |->
        [class_name |-> StrVal(<<"SimpleFileLog">>),
         filename |-> StrVal(<<"results.log.txt">>)],
     no_path |->
        [class_name |-> StrVal(<<"FileNotifier">>),
         filename |-> StrVal(<<"results.log.txt">>)],
     \* a notifier that is to stay silent about a job without output
     tg_quiet |->
        [class_name |-> StrVal(<<"TelegramNotifier">>),
         token |-> StrVal(<<"123:abc">>),
         chat_id |-> StrVal(<<"42">>),
         conditions |-> ObjVal(<<"only_if_output_non_empty">>)]]

EchoArgs == << <<"echo">>, <<"${OX_TASK_JOB_NAME}">> >>

\* the jobs of the plans, each plan in declaration order
JobsA ==
    << TaskJob("test_echo", "minimal_env", "test_file", ListCommand(EchoArgs), 10, FALSE),
       TaskJob("test_weather", "test_python", "tg", ListCommand(EchoArgs), 30, FALSE) >>

JobsB ==
    << TaskJob("test_job", "nonexistent_env", "test_file", ListCommand(EchoArgs), DefaultTimeout, FALSE),
       TaskJob("test_mail", "minimal_env", "mail", ListCommand(EchoArgs), DefaultTimeout, FALSE) >>

JobsC ==
    << TaskJob("no_note", "minimal_env", "", ListCommand(EchoArgs), DefaultTimeout, FALSE),
       TaskJob("lost_note", "minimal_env", "deleted_note", ListCommand(EchoArgs), DefaultTimeout, FALSE) >>

JobsD ==
    << TaskJob("check_tickers", "minimal_env", "simple_file_log", ListCommand(EchoArgs), DefaultTimeout, FALSE),
       TaskJob("bad_kwargs", "minimal_env", "no_path", ListCommand(EchoArgs), DefaultTimeout, FALSE) >>

JobsE ==
    << TaskJob("ordered_vars", "ordered", "test_file", ListCommand(EchoArgs), DefaultTimeout, FALSE),
       TaskJob("reversed_vars", "reversed", "test_file", ListCommand(EchoArgs), DefaultTimeout, FALSE) >>

JobsF ==
    << TaskJob("shadowed", "shadow", "test_file", ListCommand(EchoArgs), DefaultTimeout, FALSE),
       TaskJob("lone_tick", "tick", "test_file", ListCommand(EchoArgs), DefaultTimeout, FALSE) >>

\* a shell pipeline as one string, with a template reference and a double space
ShellText == <<"echo", " ", "${OX_TASK_JOB_NAME}", " ", " ", "|", " ", "wc">>

JobsG ==
    << TaskJob("test_shell_command", "minimal_env", "test_file", StrCommand(ShellText), 5, TRUE),
       TaskJob("string_no_shell", "minimal_env", "test_file", StrCommand(ShellText), DefaultTimeout, FALSE) >>

JobsH ==
    << TaskJob("list_shell", "minimal_env", "test_file", ListCommand(EchoArgs), DefaultTimeout, TRUE),
       TaskJob("empty_argv", "minimal_env", "test_file", ListCommand(<<>>), DefaultTimeout, FALSE) >>

JobsI ==
    << TaskJob("quiet_job", "minimal_env", "tg_quiet", ListCommand(EchoArgs), DefaultTimeout, FALSE) >>

TaskPlan(jobs) == [envs |-> Envs, notes |-> Notes, jobs |-> jobs]

Plans ==
    {TaskPlan(JobsA), TaskPlan(JobsB), TaskPlan(JobsC), TaskPlan(JobsD),
     TaskPlan(JobsE), TaskPlan(JobsF), TaskPlan(JobsG), TaskPlan(JobsH),
     TaskPlan(JobsI)}

\* task_plan.jobs.get(job_name): the job's index in the plan, 0 when absent
JobIndex(p, job_name) ==
    IF \E i \in DOMAIN p.jobs : p.jobs[i].name = job_name
    THEN CHOOSE i \in DOMAIN p.jobs : p.jobs[i].name = job_name
    ELSE 0

\* every name run_job is called with: the plans' job names and one absent name
JobNameInputs ==
    {"test_echo", "test_weather", "test_job", "test_mail", "no_note",
     "lost_note", "check_tickers", "bad_kwargs", "ordered_vars",
     "reversed_vars", "shadowed", "lone_tick", "test_shell_command",
     "string_no_shell", "list_shell", "empty_argv", "quiet_job",
     "nonexistent_job"}

\* the inherited process environment (os.environ)
OsEnviron == [PATH |-> <<"/usr/bin">>, HOME |-> <<"/root">>]

(***************************************************************************)
(* What the outside world decides during one run_job call: the outcome of  *)
(* each child process and of the notifier's delivery.                      *)
(***************************************************************************)
\* captured text of a completed process, of a process killed on timeout
Captured == {<<>>, <<"text">>}
CapturedPartial == {PyNone, <<"partial">>}

\* subprocess.run of the job's command: it completes, times out, or cannot start
ProcOutcomes ==
    [kind : {"completed"}, rc : ExitCodes, stdout : Captured, stderr : Captured]
    \cup [kind : {"timeout"}, rc : {0}, stdout : CapturedPartial, stderr : CapturedPartial]
    \cup [kind : {"oserror"}, rc : {0}, stdout : {<<>>}, stderr : {<<>>}]

\* the process outcome recorded when the job's command is never reached
NotReached == [kind |-> "oserror", rc |-> 0, stdout |-> <<>>, stderr |-> <<>>]

\* the most requirements an environment of the plans declares
MaxRequirements == 2

\* venv_ok: `runtime -m venv` exits 0; pip_fail_at: the first requirement whose
\* `pip install` exits non-zero (0: none); shell_ok: a backtick command exits 0;
\* proc: the job's command; deliver_ok: the notifier's delivery succeeds
AllOracles ==
    [venv_ok : BOOLEAN, pip_fail_at : 0..MaxRequirements, shell_ok : BOOLEAN,
     proc : ProcOutcomes, deliver_ok : BOOLEAN]

Faults(o) ==
    (IF o.venv_ok THEN 0 ELSE 1) + (IF o.pip_fail_at = 0 THEN 0 ELSE 1)
    + (IF o.shell_ok THEN 0 ELSE 1)

\* a call stops at its first failing step, so one failing step per oracle covers
\* every call; with a failing step the command is not reached
Oracles ==
    {o \in AllOracles :
        \/ Faults(o) = 0
        \/ Faults(o) = 1 /\ o.proc = NotReached}

\* the oracles the run-all loop is explored with: the captured text, which
\* the loop only prints, is fixed
RunOracles ==
    {o \in Oracles :
        /\ o.proc.kind = "completed"
                => o.proc.stdout = <<"text">> /\ o.proc.stderr = <<"text">>
        /\ o.proc.kind = "timeout"
                => o.proc.stdout = <<"partial">> /\ o.proc.stderr = PyNone}

(***************************************************************************)
(* Templates (string.Template.safe_substitute) and environment variables.  *)
(***************************************************************************)
EmptyDict == [k \in {} |-> <<>>]

RECURSIVE SafeSubstitute(_, _)
\* Template(tmpl).safe_substitute(env_vars): one pass, unknown references kept
SafeSubstitute(tmpl, env_vars) ==
    IF tmpl = <<>> THEN <<>>
    ELSE LET tok == Head(tmpl)
             rep == IF tok \in RefTokens /\ RefName(tok) \in DOMAIN env_vars
                    THEN env_vars[RefName(tok)]
                    ELSE <<tok>>
         IN rep \o SafeSubstitute(Tail(tmpl), env_vars)

Whitespace == {" ", "\n", "\t"}

RECURSIVE LStrip(_)
LStrip(s) == IF s # <<>> /\ Head(s) \in Whitespace THEN LStrip(Tail(s)) ELSE s

RECURSIVE RStrip(_)
RStrip(s) ==
    IF s # <<>> /\ s[Len(s)] \in Whitespace THEN RStrip(SubSeq(s, 1, Len(s) - 1)) ELSE s

\* str.strip()
Strip(s) == RStrip(LStrip(s))

RECURSIVE FirstWord(_)
\* the longest prefix of s without whitespace
FirstWord(s) ==
    IF s = <<>> \/ Head(s) \in Whitespace THEN <<>>
    ELSE <<Head(s)>> \o FirstWord(Tail(s))

RECURSIVE PySplit(_)
\* str.split(): the words of s between runs of whitespace
PySplit(s) ==
    IF LStrip(s) = <<>> THEN <<>>
    ELSE <<FirstWord(LStrip(s))>>
         \o PySplit(SubSeq(LStrip(s), Len(FirstWord(LStrip(s))) + 1, Len(LStrip(s))))

\* the standard output of the shell command `inner` run with environment env,
\* when it exits 0: the shell expands $GREETING from env; the empty command
\* prints nothing
ShellStdout(inner, env) ==
    CASE inner = <<"echo /path/to/simple_tasks">> -> <<"/path/to/simple_tasks", "\n">>
      [] inner = <<"echo ", "$GREETING">> -> DictGet(env, "GREETING", <<>>) \o <<"\n">>
      [] inner = <<>> -> <<>>
      [] OTHER -> <<" ", "hi", "\n">>

\* shell_tools.run_shell_command(command, env): stripped stdout, or the
\* CalledProcessError of check=True re-raised
RunShellCommand(inner, env, o) ==
    IF o.shell_ok
    THEN [exc |-> NoExc, value |-> Strip(ShellStdout(inner, env))]
    ELSE [exc |-> Exc("CalledProcessError",
                      <<"Command '">> \o inner \o <<"' returned non-zero exit status 1.">>),
          value |-> <<>>]

IsBacktick(value) ==
    value # <<>> /\ Head(value) = Backtick /\ value[Len(value)] = Backtick

RECURSIVE ResolveVariablesLastFirst(_, _, _)
\* a variant of ResolveVariables that resolves the last declaration first
ResolveVariablesLastFirst(variables, env_vars, o) ==
    IF variables = <<>> THEN [exc |-> NoExc, env_vars |-> env_vars, ev |-> <<>>]
    ELSE With(ResolveVariablesLastFirst(Tail(variables), env_vars, o),
              LAMBDA rest :
                [rest EXCEPT !.env_vars =
                    (Head(variables)[1] :> SafeSubstitute(Head(variables)[2], @)) @@ @])

RECURSIVE ResolveVariables(_, _, _)
\* the loop of _prepare_environment_variables over the declared variables
ResolveVariables(variables, env_vars, o) ==
    IF variables = <<>> THEN [exc |-> NoExc, env_vars |-> env_vars, ev |-> <<>>]
    ELSE LET name == Head(variables)[1]
             value == Head(variables)[2]
             inner == SubSeq(value, 2, Len(value) - 1)
             sh == <<[op |-> "shell", arg |-> inner, env |-> env_vars]>>
         IN IF IsBacktick(value)
            THEN With(RunShellCommand(inner, env_vars, o),
                      LAMBDA r :
                        IF r.exc # NoExc
                        THEN [exc |-> r.exc, env_vars |-> env_vars, ev |-> sh]
                        ELSE With(ResolveVariables(Tail(variables),
                                                   (name :> r.value) @@ env_vars, o),
                                  LAMBDA rest : [rest EXCEPT !.ev = sh \o @]))
            ELSE ResolveVariables(Tail(variables),
                                  (name :> SafeSubstitute(value, env_vars)) @@ env_vars, o)

\* a variant of PrepareEnvironmentVariables whose loop also stores each
\* resolved value in env_config.variables
PrepareEnvironmentVariablesInPlace(job_name, env_config, os_env, o) ==
    With(ResolveVariables(env_config.variables,
                          ("OX_TASK_JOB_NAME" :> <<job_name>>) @@ os_env, o),
         LAMBDA r :
           [exc |-> r.exc, env_vars |-> r.env_vars, ev |-> r.ev,
            environ |-> os_env,
            variables |->
                [i \in DOMAIN env_config.variables |->
                    <<env_config.variables[i][1],
                      DictGet(r.env_vars, env_config.variables[i][1],
                              env_config.variables[i][2])>>]])

\* a variant of PrepareEnvironmentVariables that works on os.environ itself
\* instead of a copy
PrepareEnvironmentVariablesNoCopy(job_name, env_config, os_env, o) ==
    With(ResolveVariables(env_config.variables,
                          ("OX_TASK_JOB_NAME" :> <<job_name>>) @@ os_env, o),
         LAMBDA r :
           [exc |-> r.exc, env_vars |-> r.env_vars, ev |-> r.ev,
            environ |-> r.env_vars, variables |-> env_config.variables])

\* _prepare_environment_variables(job_name, env_config); variables is
\* env_config.variables as the call leaves it: the loop reads a snapshot of
\* its items and assigns only into env_vars, a copy of os.environ; environ is
\* os.environ as the call leaves it
PrepareEnvironmentVariables(job_name, env_config, os_env, o) ==
    LET env_vars == ("OX_TASK_JOB_NAME" :> <<job_name>>) @@ os_env
    IN IF env_config.variables = <<>>
       THEN [exc |-> NoExc, env_vars |-> env_vars, ev |-> <<>>,
             environ |-> os_env, variables |-> env_config.variables]
       ELSE With(ResolveVariables(env_config.variables, env_vars, o),
                 LAMBDA r :
                   [exc |-> r.exc, env_vars |-> r.env_vars, ev |-> r.ev,
                    environ |-> os_env, variables |-> env_config.variables])

(***************************************************************************)
(* Sandbox provisioning (setup_job_environment).  A sandbox is the         *)
(* directory working_dir/job_name: whether it exists, whether its venv was *)
(* created, and the requirements installed in it, in order.                *)
(***************************************************************************)
NoSandbox == [exists |-> FALSE, venv |-> FALSE, pkgs |-> <<>>]

\* one observable step of a call: a directory made, a process run, a notifier called
Event(op, arg) == [op |-> op, arg |-> arg]

\* _create_virtual_environment(job_dir, env_config)
CreateVirtualEnvironment(sb, env_config, o) ==
    LET runtime == PyOr(env_config.runtime, <<"python3">>)
    IN IF o.venv_ok
       THEN [exc |-> NoExc, sb |-> [sb EXCEPT !.venv = TRUE],
             ev |-> <<Event("venv", runtime)>>]
       ELSE [exc |-> Exc("CalledProcessError",
                         <<"Command '">> \o runtime
                            \o <<" -m venv' returned non-zero exit status 1.">>),
             sb |-> sb, ev |-> <<Event("venv", runtime)>>]

RECURSIVE InstallLoopKeepGoing(_, _, _, _)
\* a variant of InstallLoop that goes on to the next requirement after a failure
InstallLoopKeepGoing(sb, reqs, k, o) ==
    IF reqs = <<>> THEN [exc |-> NoExc, sb |-> sb, ev |-> <<>>]
    ELSE With(InstallLoopKeepGoing(
                    IF o.pip_fail_at = k THEN sb
                    ELSE [sb EXCEPT !.pkgs = Append(@, Head(reqs))],
                    Tail(reqs), k + 1, o),
              LAMBDA rest :
                [rest EXCEPT
                    !.ev = <<Event("pip", <<Head(reqs)>>)>> \o @,
                    !.exc = IF o.pip_fail_at = k
                            THEN Exc("CalledProcessError", <<"pip install failed">>)
                            ELSE @])

RECURSIVE InstallLoop(_, _, _, _)
\* the for loop of _install_requirements; k counts the requirement reached
InstallLoop(sb, reqs, k, o) ==
    IF reqs = <<>> THEN [exc |-> NoExc, sb |-> sb, ev |-> <<>>]
    ELSE IF o.pip_fail_at = k
         THEN [exc |-> Exc("CalledProcessError",
                           <<"Command 'pip install ", Head(reqs),
                             "' returned non-zero exit status 1.">>),
               sb |-> sb, ev |-> <<Event("pip", <<Head(reqs)>>)>>]
         ELSE With(InstallLoop([sb EXCEPT !.pkgs = Append(@, Head(reqs))],
                               Tail(reqs), k + 1, o),
                   LAMBDA rest :
                     [rest EXCEPT !.ev = <<Event("pip", <<Head(reqs)>>)>> \o @])

\* _install_requirements(job_dir, env_config)
InstallRequirements(sb, env_config, o) ==
    IF ~Truthy(env_config.requirements)
    THEN [exc |-> NoExc, sb |-> sb, ev |-> <<>>]
    ELSE InstallLoop(sb, env_config.requirements, 1, o)

\* the body of `if not os.path.exists(job_dir)` in setup_job_environment:
\* the directory, the environment lookup, the venv, the requirements
ProvisionSandbox(dirs, p, job_name, env_name, o) ==
    LET made == [dirs[job_name] EXCEPT !.exists = TRUE]
        mk == <<Event("makedirs", <<job_name>>)>>
    IN IF env_name \notin DOMAIN p.envs
       THEN [exc |-> Exc("ValueError",
                         <<"Environment '", env_name, "' not found in task plan">>),
             fs |-> [dirs EXCEPT ![job_name] = made], ev |-> mk]
       ELSE With(CreateVirtualEnvironment(made, p.envs[env_name], o),
                 LAMBDA venv :
                   IF venv.exc # NoExc
                   THEN [exc |-> venv.exc,
                         fs |-> [dirs EXCEPT ![job_name] = venv.sb],
                         ev |-> mk \o venv.ev]
                   ELSE With(InstallRequirements(venv.sb, p.envs[env_name], o),
                             LAMBDA pip :
                               [exc |-> pip.exc,
                                fs |-> [dirs EXCEPT ![job_name] = pip.sb],
                                ev |-> mk \o venv.ev \o pip.ev]))

\* a variant of SetupJobEnvironment that provisions on every call
SetupJobEnvironmentEveryTime(dirs, p, job_name, env_name, o) ==
    ProvisionSandbox(dirs, p, job_name, env_name, o)

\* setup_job_environment(working_dir, job_name, task_plan, env_name)
SetupJobEnvironment(dirs, p, job_name, env_name, o) ==
    IF dirs[job_name].exists
    THEN [exc |-> NoExc, fs |-> dirs, ev |-> <<>>]
    ELSE ProvisionSandbox(dirs, p, job_name, env_name, o)

(***************************************************************************)
(* The command executor (simple_run_command).                              *)
(***************************************************************************)
\* a variant of CompletedResult that reports every completed process a success
CompletedResultAlwaysSuccess(job_results, command, proc) ==
    Update(job_results,
           [status |-> "success", exit_code |-> proc.rc,
            output |-> proc.stdout, stderr |-> proc.stderr, command |-> command])

\* simple_run_command when subprocess.run returns (lines 197-204)
CompletedResult(job_results, command, proc) ==
    With(Update(job_results,
                [status |-> IF proc.rc = 0 THEN "success" ELSE "failed",
                 exit_code |-> proc.rc,
                 output |-> proc.stdout, stderr |-> proc.stderr,
                 command |-> command]),
         LAMBDA r :
           IF r.exit_code # 0 /\ "error" \notin DOMAIN r
           THEN Update(r, [error |-> DictGet(r, "stderr", <<"unknown">>)])
           ELSE r)

\* a variant of TimeoutResult that stores the exception's stdout/stderr as is
TimeoutResultRaw(job_results, command, proc) ==
    Update(job_results,
           [status |-> "timeout", exit_code |-> -1,
            error |-> <<"Command timed out">>,
            output |-> proc.stdout, stderr |-> proc.stderr,
            command |-> command])

\* simple_run_command when subprocess.run raises TimeoutExpired (lines 206-211)
TimeoutResult(job_results, command, proc) ==
    Update(job_results,
           [status |-> "timeout", exit_code |-> -1,
            error |-> <<"Command timed out">>,
            output |-> PyOr(proc.stdout, <<>>),
            stderr |-> PyOr(proc.stderr, <<>>),
            command |-> command])

\* simple_run_command when subprocess.run raises anything else (lines 212-216)
ErrorResult(job_results, command) ==
    Update(job_results,
           [status |-> "error", exit_code |-> -1,
            error |-> <<"[Errno 2] No such file or directory">>,
            output |-> <<>>, stderr |-> <<>>, command |-> command])

\* simple_run_command(command, cwd=..., ...) on the outcome of subprocess.run
SimpleRunCommand(command, cwd, proc) ==
    CASE proc.kind = "completed" -> CompletedResult([cwd |-> cwd], command, proc)
      [] proc.kind = "timeout" -> TimeoutResult([cwd |-> cwd], command, proc)
      [] OTHER -> ErrorResult([cwd |-> cwd], command)

\* a variant of ProcEvents in which the child is started and not waited for
ProcEventsDetached(command, proc) ==
    CASE proc.kind = "completed" -> <<Event("spawn", command)>>
      [] proc.kind = "timeout" -> <<Event("spawn", command)>>
      [] OTHER -> <<>>

\* what subprocess.run does to the child: it exits by itself, is killed when the
\* timeout expires, or is never started
ProcEvents(command, proc) ==
    CASE proc.kind = "completed" -> <<Event("spawn", command), Event("exit", command)>>
      [] proc.kind = "timeout" -> <<Event("spawn", command), Event("kill", command)>>
      [] OTHER -> <<>>

(***************************************************************************)
(* Notifier lookup (core/finders.py) and the notifiers (core/noters.py).   *)
(* A class is named by a string; NoKlass is a lookup's None.               *)
(***************************************************************************)
NoKlass == "None"

\* the attributes of the module core.noters that getattr can return
NotersModuleAttrs ==
    {"Noter", "notify", "TelegramNotifier", "GmailNotifier", "FileNotifier",
     "logging", "requests", "comm_utils"}

BuiltinNotifiers == {"TelegramNotifier", "GmailNotifier", "FileNotifier"}

\* FindBuiltinNoter.lookup(name): getattr(noters, name, None)
FindBuiltinNoter(name) == IF name \in NotersModuleAttrs THEN name ELSE NoKlass

\* a lookup functor a caller registers: it knows an echo and a file notifier
PluginFunctor(name) ==
    IF name \in {"EchoNotifier", "FileNotifier"} THEN "plugin." \o name ELSE NoKlass

\* calling a registered functor
CallFunctor(functor, name) ==
    IF functor = "builtin" THEN FindBuiltinNoter(name) ELSE PluginFunctor(name)

\* TaskNoteFinder._lookup_funcs as the class body leaves it
InitialLookupFuncs == << [name |-> "__default__", functor |-> "builtin"] >>

RECURSIVE FindNoter(_, _)
\* TaskNoteFinder.find_noter(name): the first non-None result, in dict order
FindNoter(funcs, name) ==
    IF funcs = <<>> THEN NoKlass
    ELSE LET result == CallFunctor(Head(funcs).functor, name)
         IN IF result # NoKlass THEN result ELSE FindNoter(Tail(funcs), name)

\* the parameters a builtin notifier's __init__ requires
RequiredKwargs(klass) ==
    CASE klass = "FileNotifier" -> {"path"}
      [] klass = "TelegramNotifier" -> {"token", "chat_id"}
      [] OTHER -> {"to_email", "from_email", "app_passwd"}

\* klass(**kwargs): the exception of the call, NoExc when an instance is built
Construct(klass, kwargs) ==
    CASE klass \in BuiltinNotifiers ->
            IF RequiredKwargs(klass) \subseteq DOMAIN kwargs THEN NoExc
            ELSE Exc("TypeError", <<klass, ".__init__() missing required argument">>)
      [] klass = "Noter" ->
            IF DOMAIN kwargs = {} THEN NoExc
            ELSE Exc("TypeError", <<klass, "() takes no arguments">>)
      [] klass = "notify" ->
            IF DOMAIN kwargs = {"task_note", "results"}
            THEN Exc("NameError", <<"name 'job_results' is not defined">>)
            ELSE Exc("TypeError", <<klass, "() got an unexpected keyword argument">>)
      [] klass \in NotersModuleAttrs ->
            Exc("TypeError", <<"'module' object is not callable">>)
      [] OTHER -> NoExc

\* TelegramNotifier.format_result_to_msg reaches its logging.info call, which
\* names the undefined variable `condition`
TelegramFormatFails(kwargs, job_result) ==
    /\ "conditions" \in DOMAIN kwargs
    /\ kwargs["conditions"].v # PyNone
    /\ \E i \in DOMAIN kwargs["conditions"].v :
            kwargs["conditions"].v[i] = "only_if_output_non_empty"
    /\ ~Truthy(DictGet(job_result, "output", PyNone))

\* my_noter.notify_result(job_results): the exception it raises (NoExc when it
\* returns) and what became of the message
NotifierNotify(klass, kwargs, job_result, o) ==
    CASE klass = "FileNotifier" ->
            IF o.deliver_ok THEN [exc |-> NoExc, outcome |-> "delivered"]
            ELSE [exc |-> Exc("OSError", <<"[Errno 13] Permission denied: ">> \o kwargs["path"].v),
                  outcome |-> "raised"]
      [] klass = "TelegramNotifier" ->
            IF TelegramFormatFails(kwargs, job_result)
            THEN [exc |-> Exc("NameError", <<"name 'condition' is not defined">>),
                  outcome |-> "raised"]
            ELSE [exc |-> NoExc,
                  outcome |-> IF o.deliver_ok THEN "delivered" ELSE "logged"]
      [] klass = "GmailNotifier" ->
            [exc |-> NoExc, outcome |-> IF o.deliver_ok THEN "delivered" ELSE "logged"]
      [] klass = "Noter" ->
            [exc |-> Exc("AttributeError",
                         <<"'Noter' object has no attribute 'notify_result'">>),
             outcome |-> "raised"]
      [] OTHER ->
            IF o.deliver_ok THEN [exc |-> NoExc, outcome |-> "delivered"]
            ELSE [exc |-> Exc("RuntimeError", <<"delivery failed">>), outcome |-> "raised"]

\* the kwargs comprehension of notify_result over note_config.model_dump()
NoteKwargs(note_config, env_vars) ==
    [k \in DOMAIN note_config |->
        IF note_config[k].is_str
        THEN StrVal(SafeSubstitute(note_config[k].v, env_vars))
        ELSE note_config[k]]

\* from the class found to the end of notify_result
Dispatch(klass, kwargs, job_results, o) ==
    With(Construct(klass, kwargs),
         LAMBDA made :
           IF made # NoExc
           THEN [exc |-> made, ev |-> <<>>, kwargs |-> kwargs]
           ELSE With(NotifierNotify(klass, kwargs, job_results, o),
                     LAMBDA sent :
                       [exc |-> sent.exc,
                        ev |-> <<Event("notify", <<klass, sent.outcome>>)>>,
                        kwargs |-> kwargs]))

\* notify_result(task_plan, noter_name, job_results, env_vars); kwargs are the
\* keyword arguments it built for the notifier (none when it raised before)
NotifyResult(p, noter_name, job_results, env_vars, funcs, o) ==
    IF noter_name = ""
    THEN With(FindNoter(funcs, "EchoNotifier"),
              LAMBDA klass :
                IF klass = NoKlass
                THEN [exc |-> Exc("KeyError", <<"EchoNotifier">>), ev |-> <<>>,
                      kwargs |-> EmptyDict]
                ELSE Dispatch(klass, EmptyDict, job_results, o))
    ELSE IF noter_name \notin DOMAIN p.notes
         THEN [exc |-> Exc("ValueError", <<"No TaskNote named ", noter_name>>),
               ev |-> <<>>, kwargs |-> EmptyDict]
         ELSE With(FindNoter(funcs, p.notes[noter_name].class_name.v[1]),
                   LAMBDA klass :
                     IF klass = NoKlass
                     THEN [exc |-> Exc("KeyError",
                                       <<p.notes[noter_name].class_name.v[1]>>),
                           ev |-> <<>>, kwargs |-> EmptyDict]
                     ELSE Dispatch(klass,
                                   NoteKwargs(p.notes[noter_name], env_vars),
                                   job_results, o))

(***************************************************************************)
(* The job orchestrator (run_job).                                         *)
(***************************************************************************)
\* os.path.join(working_dir, job_name)
JobDir(job_name) == <<"/work", "/", job_name>>

\* a variant of JobNotFound whose message does not name the job
JobNotFoundUnnamed(job_name) ==
    [status |-> "error", exit_code |-> -1,
     error |-> <<"Job not found in task plan">>,
     output |-> <<>>, stderr |-> <<>>]

\* the result dict of an absent job (run_job, lines 255-261)
JobNotFound(job_name) ==
    [status |-> "error", exit_code |-> -1,
     error |-> <<"Job '", job_name, "' not found in task plan">>,
     output |-> <<>>, stderr |-> <<>>]

\* a variant of Caught that reports the exit code of a clean exit
CaughtExitZero(problem) ==
    [status |-> "error", exit_code |-> 0, error |-> ExcStr(problem),
     output |-> <<>>, stderr |-> <<>>, command |-> <<>>]

\* the result dict of the except clause of run_job
Caught(problem) ==
    [status |-> "error", exit_code |-> -1, error |-> ExcStr(problem),
     output |-> <<>>, stderr |-> <<>>, command |-> <<>>]

\* a try block that an exception left; bound: whether `command` was assigned
Aborted(problem, dirs, bound, ev) ==
    [exc |-> problem, fs |-> dirs, env_vars |-> EmptyDict,
     command_bound |-> bound, job_results |-> Caught(problem), ev |-> ev,
     executed |-> FALSE, proc |-> NotReached]

\* a variant of PrefixPath that leaves PATH as the variables resolved it
PrefixPathNot(job_name, prepared) == prepared

\* run_job lines 285-288: the venv's bin directory put in front of PATH
PrefixPath(job_name, prepared) ==
    LET venv_bin == JobDir(job_name) \o <<"/venv/bin">>
    IN ("PATH" :> (venv_bin \o <<":">> \o DictGet(prepared, "PATH", <<>>)))
       @@ prepared

\* run_job lines 274-277: a str command is split into words, whatever shell is
PrepareCommand(command) ==
    IF command.is_str THEN PySplit(command.parts) ELSE command.parts

\* the child of subprocess.run(command, shell=shell): Popen reads args[0], which
\* an empty list without shell does not have, so no child is started
Launch(command, shell, proc) ==
    IF command = <<>> /\ ~shell THEN NotReached ELSE proc

\* run_job lines 284-299: PATH, the command's templates, the working
\* directory and the execution, on the variables prepared
RunCommand(dirs, job_name, env_config, job_config, prepared, ev, o) ==
    LET env_vars == PrefixPath(job_name, prepared)
        split == PrepareCommand(job_config.command)
        command == [i \in DOMAIN split |-> SafeSubstitute(split[i], env_vars)]
        proc == Launch(command, job_config.shell, o.proc)
        cmd_working_dir ==
            IF Truthy(env_config.path)
            THEN JobDir(job_name) \o <<"/">> \o env_config.path
            ELSE JobDir(job_name)
    IN [exc |-> NoExc, fs |-> dirs, env_vars |-> env_vars,
        command_bound |-> TRUE,
        job_results |-> SimpleRunCommand(command, cmd_working_dir, proc),
        ev |-> ev \o ProcEvents(command, proc),
        executed |-> TRUE, proc |-> proc]

\* the task plan object once the variables of one of its environments are
\* as a call left them
PlanWithVariables(p, env_name, variables) ==
    [p EXCEPT !.envs[env_name].variables = variables]

\* what a step of run_job leaves: its outcome, the task plan object and the
\* process environment
Leaves(outcome, p, environ) == [plan |-> p, os_environ |-> environ] @@ outcome

\* the try block of run_job: provisioning, variables, command, execution
RunJobBody(dirs, p, job_name, job_config, os_env, o) ==
    With(SetupJobEnvironment(dirs, p, job_name, job_config.env, o),
         LAMBDA setup :
           IF setup.exc # NoExc
           THEN Leaves(Aborted(setup.exc, setup.fs, FALSE, setup.ev), p, os_env)
           ELSE IF job_config.env \notin DOMAIN p.envs
           THEN Leaves(Aborted(Exc("KeyError", <<job_config.env>>), setup.fs,
                               FALSE, setup.ev), p, os_env)
           ELSE With(PrepareEnvironmentVariables(job_name, p.envs[job_config.env],
                                                 os_env, o),
                     LAMBDA prep :
                       Leaves(IF prep.exc # NoExc
                              THEN Aborted(prep.exc, setup.fs, TRUE,
                                           setup.ev \o prep.ev)
                              ELSE RunCommand(setup.fs, job_name,
                                              p.envs[job_config.env], job_config,
                                              prep.env_vars, setup.ev \o prep.ev, o),
                              PlanWithVariables(p, job_config.env, prep.variables),
                              prep.environ)))

NoResult == [status |-> "none"]

\* how a call of run_job ends: it returns result, or raises problem.  The
\* record keeps what happened on the way: the exception the try block caught,
\* the exception notify_result raised, whether the executor ran and on what
Returns(result, body, note) ==
    [returned |-> TRUE, result |-> result, raised |-> NoExc,
     job_results |-> body.job_results, fs |-> body.fs, ev |-> body.ev \o note.ev,
     body_exc |-> body.exc, notify_exc |-> note.exc,
     executed |-> body.executed, proc |-> body.proc,
     env_vars |-> body.env_vars, note_kwargs |-> note.kwargs,
     plan |-> body.plan, os_environ |-> body.os_environ]

Raises(problem, body, note) ==
    [returned |-> FALSE, result |-> NoResult, raised |-> problem,
     job_results |-> body.job_results, fs |-> body.fs, ev |-> body.ev \o note.ev,
     body_exc |-> body.exc, notify_exc |-> note.exc,
     executed |-> body.executed, proc |-> body.proc,
     env_vars |-> body.env_vars, note_kwargs |-> note.kwargs,
     plan |-> body.plan, os_environ |-> body.os_environ]

\* the early return of run_job for an absent job: nothing else happens
ReturnsNotFound(job_name, dirs) ==
    [returned |-> TRUE, result |-> JobNotFound(job_name), raised |-> NoExc,
     job_results |-> JobNotFound(job_name), fs |-> dirs, ev |-> <<>>,
     body_exc |-> NoExc, notify_exc |-> NoExc,
     executed |-> FALSE, proc |-> NotReached,
     env_vars |-> EmptyDict, note_kwargs |-> EmptyDict]

\* the raise statement of run_job: its argument cmd=command reads the local
\* variable `command`, unassigned when the try block was left before line 274
StrictAbort(job_results, command_bound) ==
    IF command_bound
    THEN [type |-> "CalledProcessError",
          msg |-> <<"Command returned non-zero exit status">>,
          returncode |-> job_results.exit_code]
    ELSE Exc("UnboundLocalError",
             <<"cannot access local variable 'command'">>)

\* the value of the parameter re_raise when the caller passes none
ReRaiseDefault == TRUE

\* the call of notify_result at line 311 of run_job, entered with noter_name
Entered(noter_name, note) ==
    [note EXCEPT !.ev = <<Event("notify_result", <<noter_name>>)>> \o @]

\* a variant of NotifyAndReturn that notifies only about a job that succeeded
NotifyAndReturnOnSuccess(p, funcs, job_config, body, re_raise, o) ==
    With(IF body.job_results.exit_code = 0
         THEN Entered(job_config.note,
                      NotifyResult(p, job_config.note, body.job_results,
                                   body.env_vars, funcs, o))
         ELSE [exc |-> NoExc, ev |-> <<>>, kwargs |-> EmptyDict],
         LAMBDA note :
           IF note.exc # NoExc
           THEN Raises(note.exc, body, note)
           ELSE IF body.job_results.exit_code # 0 /\ re_raise
           THEN Raises(StrictAbort(body.job_results, body.command_bound),
                       body, note)
           ELSE Returns(body.job_results, body, note))

\* a variant of NotifyAndReturn without the strict abort
NotifyAndReturnLenient(p, funcs, job_config, body, re_raise, o) ==
    With(Entered(job_config.note,
                 NotifyResult(p, job_config.note, body.job_results, body.env_vars,
                              funcs, o)),
         LAMBDA note :
           IF note.exc # NoExc
           THEN Raises(note.exc, body, note)
           ELSE Returns(body.job_results, body, note))

\* run_job after its try statement: the notification, then the strict abort;
\* notify_result reads the plan's note through model_dump(), a copy
NotifyAndReturn(p, funcs, job_config, body, re_raise, o) ==
    With(Entered(job_config.note,
                 NotifyResult(p, job_config.note, body.job_results, body.env_vars,
                              funcs, o)),
         LAMBDA note :
           IF note.exc # NoExc
           THEN Raises(note.exc, body, note)
           ELSE IF body.job_results.exit_code # 0 /\ re_raise
           THEN Raises(StrictAbort(body.job_results, body.command_bound),
                       body, note)
           ELSE Returns(body.job_results, body, note))

\* run_job(working_dir, task_plan, job_name, re_raise)
RunJob(dirs, p, funcs, os_env, job_name, re_raise, o) ==
    IF JobIndex(p, job_name) = 0
    THEN Leaves(ReturnsNotFound(job_name, dirs), p, os_env)
    ELSE NotifyAndReturn(p, funcs, p.jobs[JobIndex(p, job_name)],
                         RunJobBody(dirs, p, job_name,
                                    p.jobs[JobIndex(p, job_name)], os_env, o),
                         re_raise, o)

(***************************************************************************)
(* Loading a task plan (cli.py _parse_task_plan_file, core/models.py).     *)
(* A plan file is described by its suffix, by whether its text can be read *)
(* (JSON that parses, Python that executes), and by the document it holds. *)
(* A document value is a mapping (with its items) or something else.       *)
(***************************************************************************)
Mapping(items) == [kind |-> "mapping", items |-> items]

\* a JSON array / a Python list where a mapping is expected
NotMapping == [kind |-> "list", items |-> <<>>]

\* the fields of a TaskEnv / TaskJob as a document holds them
DumpEnv(env) ==
    [runtime |-> env.runtime, requirements |-> env.requirements,
     path |-> env.path, variables |-> env.variables]

DumpJob(job) ==
    [env |-> job.env, note |-> job.note, command |-> job.command,
     timeout |-> job.timeout, shell |-> job.shell]

\* a job that gives only its env and its command
DumpJobWithoutNote(job) == [env |-> job.env, command |-> job.command]

\* the top-level keys of a TaskPlan, and a key TaskPlan does not declare
TopKeys == {"envs", "notes", "jobs"}
ExtraKey == "tasks"

\* how a document gives its jobs: every field, without `note`, or as a list
JobsShapes == {"declared", "without_note", "as_list"}

\* the plan files a caller hands to the loader, written from a plan p: which
\* top-level keys the document has, and whether it has one more
Sources ==
    [suffix : {".json", ".py", ".txt"}, wellformed : BOOLEAN,
     top : {"mapping"}, keys : SUBSET TopKeys, jobs : JobsShapes,
     extra : BOOLEAN]
    \cup [suffix : {".json"}, wellformed : BOOLEAN, top : {"list"},
          keys : {{}}, jobs : {"declared"}, extra : {FALSE}]

\* the file a caller writes from the whole plan, as the tests do
WholePlan(suffix) ==
    [suffix |-> suffix, wellformed |-> TRUE, top |-> "mapping",
     keys |-> TopKeys, jobs |-> "declared", extra |-> FALSE]

\* the value of one top-level key of the document of source, written from p
TopValue(source, p, key) ==
    CASE key = "envs" -> Mapping([e \in DOMAIN p.envs |-> DumpEnv(p.envs[e])])
      [] key = "notes" -> Mapping(p.notes)
      [] key = "jobs" ->
            IF source.jobs = "as_list" THEN NotMapping
            ELSE Mapping([i \in DOMAIN p.jobs |->
                    <<p.jobs[i].name,
                      IF source.jobs = "declared" THEN DumpJob(p.jobs[i])
                      ELSE DumpJobWithoutNote(p.jobs[i])>>])
      [] OTHER -> Mapping(<<>>)

\* the top-level items of the document of source
DocItems(source, p) ==
    [key \in source.keys \cup (IF source.extra THEN {ExtraKey} ELSE {}) |->
        TopValue(source, p, key)]

\* the plan of a load that raised
NoPlan == [envs |-> EmptyDict, notes |-> EmptyDict, jobs |-> <<>>]

\* TaskEnv(**raw): every field has a default
MakeEnv(raw) ==
    TaskEnv(DictGet(raw, "runtime", PyNone), DictGet(raw, "requirements", PyNone),
            DictGet(raw, "path", PyNone), DictGet(raw, "variables", <<>>))

\* TaskNote(**raw): class_name is required, every other key is kept
ValidNote(raw) == "class_name" \in DOMAIN raw /\ raw["class_name"].is_str

\* TaskJob(**raw): env, note and command are required
ValidJob(raw) == {"env", "note", "command"} \subseteq DOMAIN raw

MakeJob(name, raw) ==
    TaskJob(name, raw["env"], raw["note"], raw["command"],
            DictGet(raw, "timeout", DefaultTimeout), DictGet(raw, "shell", FALSE))

\* a TaskPlan whose three fields were required
CollectionRequired(task_data, key) == DictGet(task_data, key, NotMapping)

\* a collection of a TaskPlan: default_factory=dict when its key is absent
Collection(task_data, key) == DictGet(task_data, key, Mapping(<<>>))

\* models.TaskPlan(**task_data): keys TaskPlan does not declare are ignored,
\* and no field of a job is looked up in envs or notes
ValidateTaskPlan(task_data) ==
    LET envs == Collection(task_data, "envs")
        notes == Collection(task_data, "notes")
        jobs == Collection(task_data, "jobs")
    IN  IF \/ envs.kind # "mapping"
           \/ notes.kind # "mapping"
           \/ jobs.kind # "mapping"
        THEN [exc |-> Exc("ValidationError", <<"Input should be a valid dictionary">>),
              plan |-> NoPlan]
        ELSE IF \/ \E i \in DOMAIN jobs.items : ~ValidJob(jobs.items[i][2])
                \/ \E n \in DOMAIN notes.items : ~ValidNote(notes.items[n])
        THEN [exc |-> Exc("ValidationError", <<"Field required">>), plan |-> NoPlan]
        ELSE [exc |-> NoExc,
              plan |-> [envs |-> [e \in DOMAIN envs.items |-> MakeEnv(envs.items[e])],
                        notes |-> notes.items,
                        jobs |-> [i \in DOMAIN jobs.items |->
                                    MakeJob(jobs.items[i][1], jobs.items[i][2])]]]

\* the task_data of a .py file: the three module attributes, {} when absent
ModuleTaskData(attrs) ==
    [key \in TopKeys |-> DictGet(attrs, key, Mapping(<<>>))]

\* a loader that reads every file as JSON, whatever its suffix
ParseAnySuffix(source, p) ==
    IF ~source.wellformed
    THEN [exc |-> Exc("JSONDecodeError", <<"Expecting value">>), plan |-> NoPlan]
    ELSE IF source.top # "mapping"
    THEN [exc |-> Exc("TypeError", <<"argument after ** must be a mapping">>),
          plan |-> NoPlan]
    ELSE ValidateTaskPlan(DocItems(source, p))

\* _parse_task_plan_file(task_plan_path), the file written from the plan p
ParseTaskPlanFile(source, p) ==
    CASE source.suffix = ".json" ->
            IF ~source.wellformed
            THEN [exc |-> Exc("JSONDecodeError", <<"Expecting value">>), plan |-> NoPlan]
            ELSE IF source.top # "mapping"
            THEN [exc |-> Exc("TypeError", <<"argument after ** must be a mapping">>),
                  plan |-> NoPlan]
            ELSE ValidateTaskPlan(DocItems(source, p))
      [] source.suffix = ".py" ->
            IF ~source.wellformed
            THEN [exc |-> Exc("SyntaxError", <<"invalid syntax">>), plan |-> NoPlan]
            ELSE ValidateTaskPlan(ModuleTaskData(DocItems(source, p)))
      [] OTHER ->
            [exc |-> Exc("ValueError", <<"Unsupported file type: ", source.suffix,
                                         ". Use .json or .py files.">>),
             plan |-> NoPlan]

(***************************************************************************)
(* State.                                                                  *)
(***************************************************************************)
VARIABLES
    plan,           \* the TaskPlan the caller loaded
    os_environ,     \* the orchestrator's own process environment
    lookup_funcs,   \* TaskNoteFinder._lookup_funcs, in insertion order
    fs,             \* the sandboxes under the working directory, by job name
    call,           \* the latest call of run_job and how it ended
    run_pc,         \* the `run` command: "idle", "loop", "done", "crashed", "aborted"
    run_strict,     \* its --re-raise flag
    run_next,       \* the index in plan.jobs of the job its loop runs next
    all_results,    \* its all_results dict
    exit_code,      \* the exit status of its process, once it has ended
    run_log,        \* what its process did so far, in order: the job and the step
    last_op         \* the caller's latest call of the loader or of the notifier
                    \* registry, and how it ended

vars ==
    <<plan, os_environ, lookup_funcs, fs, call, run_pc, run_strict, run_next,
      all_results, exit_code, run_log, last_op>>

\* the caller holds no outcome of a loader or registry call
NoOp == [op |-> "none"]

NoCall ==
    [job_name |-> "", arg |-> "none", returned |-> FALSE, result |-> NoResult,
     raised |-> NoExc, job_results |-> NoResult, ev |-> <<>>,
     body_exc |-> NoExc, notify_exc |-> NoExc, executed |-> FALSE,
     proc |-> NotReached, in_run |-> FALSE,
     fs_before |-> [j \in JobNameInputs |-> NoSandbox],
     env_vars |-> EmptyDict, note_kwargs |-> EmptyDict]

\* the record of a finished call
CallRecord(job_name, arg, out, in_run, before) ==
    [job_name |-> job_name, arg |-> arg, returned |-> out.returned,
     result |-> out.result, raised |-> out.raised,
     job_results |-> out.job_results, ev |-> out.ev,
     body_exc |-> out.body_exc, notify_exc |-> out.notify_exc,
     executed |-> out.executed, proc |-> out.proc, in_run |-> in_run,
     fs_before |-> before,
     env_vars |-> out.env_vars, note_kwargs |-> out.note_kwargs]

Init ==
    /\ plan \in Plans
    /\ os_environ = OsEnviron
    /\ lookup_funcs = InitialLookupFuncs
    /\ fs = [j \in JobNameInputs |-> NoSandbox]
    /\ call = NoCall
    /\ run_pc = "idle"
    /\ run_strict = FALSE
    /\ run_next = 1
    /\ all_results = EmptyDict
    /\ exit_code = 0
    /\ run_log = <<>>
    /\ last_op = NoOp

PlanJobNames(p) == {p.jobs[i].name : i \in DOMAIN p.jobs}

\* how a caller passes re_raise: not at all, True or False
ReRaiseArgs == {"default", "true", "false"}

ReRaiseOf(arg) == IF arg = "default" THEN ReRaiseDefault ELSE arg = "true"

(***************************************************************************)
(* Actions.                                                                *)
(***************************************************************************)
\* a direct call run_job(working_dir, task_plan, job_name[, re_raise]) from a
\* caller's process, as the tests make it
RunJobCall(job_name, arg, o) ==
    /\ run_pc = "idle"
    /\ call = NoCall
    /\ last_op = NoOp
    /\ With(RunJob(fs, plan, lookup_funcs, os_environ, job_name, ReRaiseOf(arg), o),
            LAMBDA out :
              /\ fs' = out.fs
              /\ plan' = out.plan
              /\ os_environ' = out.os_environ
              /\ call' = CallRecord(job_name, arg, out, FALSE, fs))
    /\ UNCHANGED <<lookup_funcs, run_pc, run_strict, run_next,
                   all_results, exit_code, run_log, last_op>>

\* the caller is done with what the call returned or raised
CallerContinues ==
    /\ run_pc = "idle"
    /\ call # NoCall \/ last_op # NoOp
    /\ call' = NoCall
    /\ last_op' = NoOp
    /\ UNCHANGED <<plan, os_environ, lookup_funcs, fs, run_pc, run_strict,
                   run_next, all_results, exit_code, run_log>>

\* the plan files the `run` command is started on: the whole plan in each
\* kind of file, and the documents that are not a plan
RunSources ==
    {source \in Sources :
        source.top = "mapping" =>
            /\ source.keys = TopKeys
            /\ ~source.extra
            /\ source.jobs # "declared" => source.suffix = ".json" /\ source.wellformed}

\* the `run` command up to its loop (cli.py lines 377-396), in a new process:
\* the module state of core.finders is as imported; a plan file that does not
\* load is reported (last_op holds what is echoed) and the process exits
\* with status 1
RunStart(re_raise, source) ==
    /\ run_pc = "idle"
    /\ call = NoCall
    /\ last_op = NoOp
    /\ lookup_funcs' = InitialLookupFuncs
    /\ With(ParseTaskPlanFile(source, plan),
            LAMBDA parsed :
              IF parsed.exc = NoExc
              THEN /\ plan' = parsed.plan
                   /\ run_pc' = "loop"
                   /\ exit_code' = 0
                   /\ last_op' = last_op
              ELSE /\ plan' = plan
                   /\ run_pc' = "aborted"
                   /\ exit_code' = 1
                   /\ last_op' = [op |-> "run", source |-> source,
                                  raised |-> parsed.exc])
    /\ run_strict' = re_raise
    /\ run_next' = 1
    /\ all_results' = EmptyDict
    /\ run_log' = <<>>
    /\ UNCHANGED <<os_environ, fs, call>>

\* the steps of one call of run_job, tagged with its job
Logged(job_name, ev) ==
    [i \in DOMAIN ev |-> [job |-> job_name, op |-> ev[i].op]]

\* one iteration of the loop `for job_name in task_plan.jobs`; an exception
\* that run_job raises is not caught by `run` and ends the process
RunLoopStep(o) ==
    /\ run_pc = "loop"
    /\ run_next <= Len(plan.jobs)
    /\ With(RunJob(fs, plan, lookup_funcs, os_environ, plan.jobs[run_next].name,
                   run_strict, o),
            LAMBDA out :
              /\ fs' = out.fs
              /\ plan' = out.plan
              /\ os_environ' = out.os_environ
              /\ call' = CallRecord(plan.jobs[run_next].name,
                                    IF run_strict THEN "true" ELSE "false",
                                    out, TRUE, fs)
              /\ run_log' = run_log \o Logged(plan.jobs[run_next].name, out.ev)
              /\ IF out.returned
                 THEN /\ all_results' =
                            (plan.jobs[run_next].name :> out.result) @@ all_results
                      /\ run_next' = run_next + 1
                      /\ UNCHANGED <<run_pc, exit_code>>
                 ELSE /\ run_pc' = "crashed"
                      /\ exit_code' = 1
                      /\ UNCHANGED <<all_results, run_next>>)
    /\ UNCHANGED <<lookup_funcs, run_strict, last_op>>

\* the summary after the loop and the exit status (cli.py lines 423-433)
RunFinish ==
    /\ run_pc = "loop"
    /\ run_next > Len(plan.jobs)
    /\ LET successful == Cardinality({j \in DOMAIN all_results :
                                        all_results[j].status = "success"})
           total == Cardinality(DOMAIN all_results)
       IN exit_code' = IF successful < total THEN 1 ELSE 0
    /\ run_pc' = "done"
    /\ UNCHANGED <<plan, os_environ, lookup_funcs, fs, call, run_strict,
                   run_next, all_results, run_log, last_op>>

\* the process of the `run` command has ended: only the working directory stays
RunExit ==
    /\ run_pc \in {"done", "crashed", "aborted"}
    /\ run_pc' = "idle"
    /\ call' = NoCall
    /\ all_results' = EmptyDict
    /\ run_next' = 1
    /\ run_strict' = FALSE
    /\ exit_code' = 0
    /\ run_log' = <<>>
    /\ last_op' = NoOp
    /\ UNCHANGED <<plan, os_environ, lookup_funcs, fs>>

LookupNames(funcs) == {funcs[i].name : i \in DOMAIN funcs}

\* the lookups callers register: name and functor
Registrations ==
    {[name |-> "plugin", functor |-> "plugin"],
     [name |-> "__default__", functor |-> "builtin"]}

\* the lookups a library caller registers: also a second one under the name
\* "plugin", with another functor
LibRegistrations ==
    Registrations \cup {[name |-> "plugin", functor |-> "builtin"]}

\* the assignment cls._lookup_funcs[name] = functor alone: the entry of a
\* taken name is replaced where it stands
AddLookupOverwrite(funcs, reg) ==
    [exc |-> NoExc,
     funcs |-> IF reg.name \in LookupNames(funcs)
               THEN [i \in DOMAIN funcs |->
                        IF funcs[i].name = reg.name THEN reg ELSE funcs[i]]
               ELSE Append(funcs, reg)]

\* TaskNoteFinder.add_lookup_functor(name, functor): a taken name raises
\* ValueError and the dict is left as it was
AddLookup(funcs, reg) ==
    IF reg.name \in LookupNames(funcs)
    THEN [exc |-> Exc("ValueError", <<"Lookup function {name} already exists.">>),
          funcs |-> funcs]
    ELSE [exc |-> NoExc, funcs |-> Append(funcs, reg)]

\* a caller registers a lookup
AddLookupFunctor(reg) ==
    /\ run_pc = "idle"
    /\ call = NoCall
    /\ last_op = NoOp
    /\ lookup_funcs' = AddLookup(lookup_funcs, reg).funcs
    /\ last_op' = [op |-> "add", reg |-> reg, before |-> lookup_funcs,
                   raised |-> AddLookup(lookup_funcs, reg).exc]
    /\ UNCHANGED <<plan, os_environ, fs, call, run_pc, run_strict, run_next,
                   all_results, exit_code, run_log>>

RECURSIVE Pop(_, _)
\* dict.pop(name, None) on the ordered dict
Pop(funcs, name) ==
    IF funcs = <<>> THEN <<>>
    ELSE IF Head(funcs).name = name THEN Tail(funcs)
    ELSE <<Head(funcs)>> \o Pop(Tail(funcs), name)

\* TaskNoteFinder.del_lookup_functor(name)
DelLookupFunctor(name) ==
    /\ run_pc = "idle"
    /\ call = NoCall
    /\ last_op = NoOp
    /\ name \in LookupNames(lookup_funcs)
    /\ lookup_funcs' = Pop(lookup_funcs, name)
    /\ last_op' = [op |-> "del", name |-> name, before |-> lookup_funcs]
    /\ UNCHANGED <<plan, os_environ, fs, call, run_pc, run_strict, run_next,
                   all_results, exit_code, run_log>>

\* the class names callers look up: the notifiers, other attributes of the
\* module core.noters, and names nothing knows
FinderNames ==
    {"FileNotifier", "TelegramNotifier", "GmailNotifier", "EchoNotifier",
     "SimpleFileLog", "logging", "notify", "Noter"}

\* a caller's TaskNoteFinder.find_noter(name): KeyError(name) when every
\* lookup returns None
FindNoterCall(name) ==
    /\ run_pc = "idle"
    /\ call = NoCall
    /\ last_op = NoOp
    /\ last_op' = [op |-> "find", name |-> name,
                   result |-> FindNoter(lookup_funcs, name),
                   raised |-> IF FindNoter(lookup_funcs, name) = NoKlass
                              THEN Exc("KeyError", <<name>>) ELSE NoExc]
    /\ UNCHANGED <<plan, os_environ, lookup_funcs, fs, call, run_pc, run_strict,
                   run_next, all_results, exit_code, run_log>>

\* a caller's _parse_task_plan_file(path) on a file written from its plan
ParseCall(source) ==
    /\ run_pc = "idle"
    /\ call = NoCall
    /\ last_op = NoOp
    /\ With(ParseTaskPlanFile(source, plan),
            LAMBDA parsed :
              last_op' = [op |-> "parse", source |-> source,
                          raised |-> parsed.exc, plan |-> parsed.plan])
    /\ UNCHANGED <<plan, os_environ, lookup_funcs, fs, call, run_pc, run_strict,
                   run_next, all_results, exit_code, run_log>>

\* a guard that does not depend on an action's inputs stands ahead of their
\* enumeration
Next ==
    \/ /\ run_pc = "idle" /\ call = NoCall /\ last_op = NoOp
       /\ \E job_name \in PlanJobNames(plan) \cup {"nonexistent_job"},
             arg \in ReRaiseArgs, o \in Oracles : RunJobCall(job_name, arg, o)
    \/ CallerContinues
    \/ /\ run_pc = "idle" /\ call = NoCall /\ last_op = NoOp
       /\ \E re_raise \in BOOLEAN, source \in RunSources : RunStart(re_raise, source)
    \/ /\ run_pc = "loop"
       /\ \E o \in RunOracles : RunLoopStep(o)
    \/ RunFinish
    \/ RunExit
    \/ \E reg \in Registrations : AddLookupFunctor(reg)
    \/ \E reg \in Registrations : DelLookupFunctor(reg.name)

Spec == Init /\ [][Next]_vars

\* the calls a library caller makes of the loader and of the notifier registry
LibNext ==
    \/ \E source \in Sources : ParseCall(source)
    \/ \E name \in FinderNames : FindNoterCall(name)
    \/ \E reg \in LibRegistrations : AddLookupFunctor(reg)
    \/ \E reg \in LibRegistrations : DelLookupFunctor(reg.name)
    \/ CallerContinues

LibSpec == Init /\ [][LibNext]_vars

(***************************************************************************)
(* Properties.  A call is the latest finished call of run_job; `call` is   *)
(* NoCall when the caller holds none.                                      *)
(***************************************************************************)
Called == call # NoCall

\* the job of the latest call is a job of the plan
CalledJobExists == Called /\ JobIndex(plan, call.job_name) # 0

CalledJob == plan.jobs[JobIndex(plan, call.job_name)]

\* the notifier's delivery failed in the latest call: an HTTP or SMTP error that
\* the notifier logged, or a FileNotifier that could not open its path
DeliveryFailed ==
    \E i \in DOMAIN call.ev :
        /\ call.ev[i].op = "notify"
        /\ \/ call.ev[i].arg[2] = "logged"
           \/ call.ev[i].arg[1] = "FileNotifier" /\ call.ev[i].arg[2] = "raised"

\* C1: for a job of the plan, a failure at any stage of notification dispatch
\* (no such note, class lookup miss, constructor error, notify_result raising)
\* never propagates out of run_job: run_job returns the job's result and the
\* failure is recorded in the result's notification-error field.
C1_NotifyFailureIsRecorded ==
    (CalledJobExists /\ call.notify_exc # NoExc)
        => /\ call.returned
           /\ call.result.status = call.job_results.status
           /\ "notification_error" \in DOMAIN call.result

\* C2: when a notifier's underlying delivery fails, the result returned for the
\* job has exactly the status and exit code the executor produced and its
\* notification-error field is populated.
C2_DeliveryFailureKeepsResult ==
    (CalledJobExists /\ DeliveryFailed)
        => /\ call.returned
           /\ call.result.status = call.job_results.status
           /\ call.result.exit_code = call.job_results.exit_code
           /\ "notification_error" \in DOMAIN call.result
           /\ call.result["notification_error"] # <<>>

\* C3: a non-strict `run` attempts every job of the plan: when it ends, the
\* loop has run to completion and all_results has exactly one entry per job
\* name of the plan.
C3_NonStrictRunCoversEveryJob ==
    (run_pc \in {"done", "crashed"} /\ ~run_strict)
        => /\ run_pc = "done"
           /\ DOMAIN all_results = PlanJobNames(plan)

\* C4: run_job with a job name absent from plan.jobs returns (whatever re_raise
\* is, the default included) a result of status error whose error message
\* contains the job name; it creates no sandbox directory and dispatches no
\* notification.
C4_MissingJobReturnsError ==
    (Called /\ ~CalledJobExists)
        => /\ call.returned
           /\ call.raised = NoExc
           /\ call.result.status = "error"
           /\ \E i \in DOMAIN call.result.error :
                call.result.error[i] = call.job_name
           /\ fs = call.fs_before
           /\ call.ev = <<>>

\* C4 witness: a call for an absent job, re_raise left at its default, returned
C4_Witness ==
    /\ call.job_name = "nonexistent_job"
    /\ call.arg = "default"
    /\ call.returned

\* C5: whenever strict (re_raise) is requested and the job's result status is
\* not success, whatever the cause, run_job raises subprocess.CalledProcessError
\* carrying the result's exit code; when the status is success it returns the
\* result.  Stated for the calls whose notification raised nothing.
C5_StrictRaisesCalledProcessError ==
    (Called /\ ReRaiseOf(call.arg) /\ call.notify_exc = NoExc)
        => IF call.job_results.status = "success"
           THEN call.returned /\ call.result = call.job_results
           ELSE /\ ~call.returned
                /\ call.raised.type = "CalledProcessError"
                /\ call.raised.returncode = call.job_results.exit_code

\* C6: run_job invoked without a re_raise argument returns the job's result
\* for every outcome, status timeout and status error included, rather than
\* raising.  Stated for the calls whose notification raised nothing (the tests
\* replace notify_result by a mock).
C6_DefaultCallReturns ==
    (Called /\ call.arg = "default" /\ call.notify_exc = NoExc)
        => call.returned /\ call.result = call.job_results

\* C7: for a job whose env names no Environment of the plan, every run (the
\* first and every later one against the same working directory) yields status
\* error, exit_code -1 and the message "Environment '<env>' not found in task
\* plan".
C7_MissingEnvMessage ==
    (CalledJobExists /\ CalledJob.env \notin DOMAIN plan.envs)
        => /\ call.job_results.status = "error"
           /\ call.job_results.exit_code = -1
           /\ call.job_results.error =
                <<"Environment '", CalledJob.env, "' not found in task plan">>

C9_TimeoutResult ==
    (call.executed /\ call.proc.kind = "timeout")
        => /\ call.job_results.status = "timeout"
           /\ call.job_results.error = <<"Command timed out">>
           /\ call.job_results.exit_code = -1
           /\ call.job_results.output =
                (IF call.proc.stdout = PyNone THEN <<>> ELSE call.proc.stdout)
           /\ call.job_results.stderr =
                (IF call.proc.stderr = PyNone THEN <<>> ELSE call.proc.stderr)
           /\ \A i \in DOMAIN call.ev :
                call.ev[i].op = "spawn"
                    => \E j \in DOMAIN call.ev : j > i /\ call.ev[j].op = "kill"

\* C9 witness: a timed-out process that had written to stdout and not to stderr
C9_Witness ==
    /\ call.executed
    /\ call.proc.kind = "timeout"
    /\ call.proc.stdout = <<"partial">>
    /\ call.proc.stderr = PyNone
    /\ \E i \in DOMAIN call.ev : call.ev[i].op = "kill"

\* C10: for a process that runs to completion with a non-zero exit code, the
\* result's error message equals the captured standard error when that is
\* non-empty and equals "unknown" when it is empty.
C10_FailedErrorMessage ==
    (call.executed /\ call.proc.kind = "completed" /\ call.proc.rc # 0)
        => call.job_results.error =
             (IF call.proc.stderr # <<>> THEN call.proc.stderr ELSE <<"unknown">>)

\* the provisioning steps among the steps of a call, in order
ProvisioningSteps(ev) ==
    SelectSeq(ev, LAMBDA e : e.op \in {"makedirs", "venv", "pip"})

IsPrefix(a, b) == Len(a) <= Len(b) /\ a = SubSeq(b, 1, Len(a))

\* C11: once a job's sandbox directory exists, every later call for the same
\* working directory and job name creates no directory and no venv, installs
\* no requirement, leaves the sandbox as it was and runs the command in the
\* same sandbox path; no call removes an existing sandbox directory.
C11_ProvisioningIdempotent ==
    /\ \A j \in JobNameInputs :
            call.fs_before[j].exists => fs[j] = call.fs_before[j]
    /\ (CalledJobExists /\ call.fs_before[call.job_name].exists)
            => /\ ProvisioningSteps(call.ev) = <<>>
               /\ call.executed => call.job_results.cwd = JobDir(call.job_name)

\* C11 witness: a later call for a fully provisioned sandbox ran the command
C11_Witness ==
    /\ call.job_name = "test_weather"
    /\ call.fs_before["test_weather"].exists
    /\ call.fs_before["test_weather"].pkgs = <<"requests", "click">>
    /\ call.executed

\* C12: when the job's sandbox does not exist and its environment is in the
\* plan, the call makes the directory, then creates the venv, then installs
\* the requirements in declaration order, before anything else; the first
\* failing step ends provisioning: no later requirement is installed, no
\* backtick command and no job command is run, and the result has status error.
C12_ProvisioningOrder ==
    (/\ CalledJobExists
     /\ ~call.fs_before[call.job_name].exists
     /\ CalledJob.env \in DOMAIN plan.envs)
        => LET env == plan.envs[CalledJob.env]
               expected ==
                   <<Event("makedirs", <<call.job_name>>),
                     Event("venv", PyOr(env.runtime, <<"python3">>))>>
                   \o [i \in DOMAIN env.requirements |->
                            Event("pip", <<env.requirements[i]>>)]
               done == ProvisioningSteps(call.ev)
               sb == fs[call.job_name]
           IN /\ IsPrefix(done, expected)
              /\ Len(done) >= 2
              /\ \A i \in 1..Len(done) : call.ev[i].op = done[i].op
              /\ IF sb.venv /\ sb.pkgs = env.requirements
                 THEN done = expected
                 ELSE /\ ~call.executed
                      /\ call.job_results.status = "error"
                      /\ \A i \in DOMAIN call.ev :
                            call.ev[i].op \notin {"spawn", "shell"}
                      /\ ~sb.venv => Len(done) = 2
                      /\ sb.pkgs = SubSeq(env.requirements, 1, Len(done) - 3)

\* C12 witness: the second of two requirements failed to install
C12_Witness ==
    /\ call.job_name = "test_weather"
    /\ ~call.fs_before["test_weather"].exists
    /\ fs["test_weather"].venv
    /\ fs["test_weather"].pkgs = <<"requests">>
    /\ Len(ProvisioningSteps(call.ev)) = 4
    /\ call.job_results.status = "error"

\* the positions in ev of the steps named op
StepsOf(ev, op) == {i \in DOMAIN ev : ev[i].op = op}

\* C13: for a job of the plan, every call of run_job enters notify_result
\* exactly once, with the job's note, whatever the outcome of the try block
\* (success, failed, timeout, error): after every step of provisioning,
\* variable resolution and execution, with the result already determined, and
\* before run_job returns or raises; a notifier is invoked at most once, inside
\* that call.  In a run of all jobs each job run so far was notified once.
C13_NotifiedOncePerRun ==
    /\ CalledJobExists
            => /\ Cardinality(StepsOf(call.ev, "notify_result")) = 1
               /\ \A i \in StepsOf(call.ev, "notify_result") :
                    /\ call.ev[i].arg = <<CalledJob.note>>
                    /\ \A j \in DOMAIN call.ev :
                            IF call.ev[j].op = "notify" THEN j = i + 1 ELSE j <= i
               /\ call.job_results.status \in {"success", "failed", "timeout", "error"}
    /\ \A k \in DOMAIN plan.jobs :
            LET n == Cardinality({i \in DOMAIN run_log :
                        /\ run_log[i].job = plan.jobs[k].name
                        /\ run_log[i].op = "notify_result"})
            IN IF run_pc # "idle" /\ (k < run_next \/ (k = run_next /\ run_pc = "crashed"))
               THEN n = 1 ELSE n = 0

\* C13 witness: the try block failed during provisioning and the notifier was
\* still invoked with the error result
C13_Witness ==
    /\ CalledJobExists
    /\ call.body_exc.type = "CalledProcessError"
    /\ ~call.executed
    /\ call.job_results.status = "error"
    /\ \E i \in DOMAIN call.ev :
            call.ev[i].op = "notify" /\ call.ev[i].arg[2] = "delivered"

\* the jobs of run_log are in the order of the plan, none coming back
LogInPlanOrder ==
    \A i, j \in DOMAIN run_log :
        i < j => JobIndex(plan, run_log[i].job) <= JobIndex(plan, run_log[j].job)

\* C14: when the process of `run` ends, it has run the jobs in the order of the
\* plan, all_results holds one result per job name of the plan, and the exit
\* code is 0 exactly when every job's status is success (non-zero as soon as
\* one job is failed, timeout or error).  Stated for the runs without
\* --re-raise, which no job's failure is meant to stop.
C14_RunExitCode ==
    (run_pc \in {"done", "crashed"} /\ ~run_strict)
        => /\ LogInPlanOrder
           /\ DOMAIN all_results = PlanJobNames(plan)
           /\ (exit_code = 0)
                <=> (\A j \in DOMAIN all_results : all_results[j].status = "success")

\* C15: in a run of all jobs the steps of different jobs never interleave: the
\* steps follow the order of the plan, every command started has exited or
\* been killed before the next step of any kind, and the first step of a job
\* comes only after the previous job's notification (the call of notify_result
\* and the notifier it invoked) is over.
C15_JobsNeverOverlap ==
    /\ LogInPlanOrder
    /\ \A i \in DOMAIN run_log :
        /\ run_log[i].op = "spawn"
            => /\ i + 1 \in DOMAIN run_log
               /\ run_log[i + 1].job = run_log[i].job
               /\ run_log[i + 1].op \in {"exit", "kill"}
        /\ (i + 1 \in DOMAIN run_log /\ run_log[i + 1].job # run_log[i].job)
            => /\ run_log[i].op \in {"notify_result", "notify"}
               /\ run_log[i].job \in DOMAIN all_results

\* C15 witness: two jobs of one run each ran their command
C15_Witness ==
    \E i, j \in DOMAIN run_log :
        /\ i < j
        /\ run_log[i].job # run_log[j].job
        /\ run_log[i].op = "spawn"
        /\ run_log[j].op = "spawn"

\* the environment of the job of the latest call, and its declared variables
CalledEnv == plan.envs[CalledJob.env]

\* the call got as far as handing env_vars to the command
Resolved == CalledJobExists /\ call.executed

\* what the k-th declaration of vs is resolved against: the inherited
\* environment, the job-name variable, and the declarations before it with the
\* values they resolved to
ResolvedSoFar(vs, k) ==
    LET earlier == {vs[i][1] : i \in 1..(k - 1)}
    IN [n \in DOMAIN os_environ \cup {"OX_TASK_JOB_NAME"} \cup earlier |->
            IF n \in earlier THEN call.env_vars[n]
            ELSE IF n = "OX_TASK_JOB_NAME" THEN <<call.job_name>>
            ELSE os_environ[n]]

\* C16: the variables of an environment are resolved in declaration order,
\* each against the inherited environment, the job-name variable and the
\* earlier declarations as resolved: with A = "1" declared before B = "$A-2",
\* B is "1-2"; with B declared before A, B keeps the literal "$A-2".
C16_DeclarationOrder ==
    Resolved
        => /\ \A k \in DOMAIN CalledEnv.variables :
                (~IsBacktick(CalledEnv.variables[k][2])
                 /\ CalledEnv.variables[k][1] # "PATH")
                    => call.env_vars[CalledEnv.variables[k][1]] =
                         SafeSubstitute(CalledEnv.variables[k][2],
                                        ResolvedSoFar(CalledEnv.variables, k))
           /\ CalledJob.env = "ordered"
                => call.env_vars["A"] = <<"1">> /\ call.env_vars["B"] = <<"1", "-2">>
           /\ CalledJob.env = "reversed"
                => call.env_vars["A"] = <<"1">> /\ call.env_vars["B"] = <<"$A", "-2">>

\* C16 witness: B, declared after A, was resolved to "1-2"
C16_Witness ==
    /\ Resolved
    /\ CalledJob.env = "ordered"
    /\ call.env_vars["B"] = <<"1", "-2">>

\* the backtick commands the latest call ran, in order
ShellSteps == SelectSeq(call.ev, LAMBDA e : e.op = "shell")

\* value is some text between one opening and one closing backtick
WrappedInBackticks(value) ==
    Len(value) >= 2 /\ value[1] = Backtick /\ value[Len(value)] = Backtick

\* C17: a variable whose raw value is wrapped in a pair of backticks resolves
\* to the stripped standard output of the inner text, run as a shell command
\* whose environment is the variable set resolved so far; a value not wrapped
\* in backticks is never run as a command; a failing backtick command gives
\* the job a result of status error.
C17_BacktickValues ==
    (CalledJobExists /\ CalledJob.env \in DOMAIN plan.envs)
        => LET vs == CalledEnv.variables
               wrapped == {k \in DOMAIN vs : WrappedInBackticks(vs[k][2])}
           IN /\ Len(ShellSteps) <= Cardinality(wrapped)
              /\ \A i \in DOMAIN ShellSteps :
                    \E k \in wrapped :
                        /\ ShellSteps[i].arg = SubSeq(vs[k][2], 2, Len(vs[k][2]) - 1)
                        /\ call.executed => ShellSteps[i].env = ResolvedSoFar(vs, k)
              /\ call.executed
                    => /\ Len(ShellSteps) = Cardinality(wrapped)
                       /\ \A k \in wrapped :
                            call.env_vars[vs[k][1]] =
                                Strip(ShellStdout(SubSeq(vs[k][2], 2, Len(vs[k][2]) - 1),
                                                  ResolvedSoFar(vs, k)))
                       /\ \A k \in DOMAIN vs \ wrapped :
                            vs[k][1] # "PATH"
                                => call.env_vars[vs[k][1]] =
                                     SafeSubstitute(vs[k][2], ResolvedSoFar(vs, k))
              /\ (ShellSteps # <<>> /\ ~call.executed)
                    => /\ call.body_exc.type = "CalledProcessError"
                       /\ call.job_results.status = "error"

\* notify_result of the latest call built keyword arguments from a TaskNote
KwargsBuilt == CalledJobExists /\ call.note_kwargs # EmptyDict

\* C18: whenever notify_result builds a notifier's keyword arguments, in a run
\* that ended in status error as in any other, every string-valued field is
\* the safe substitution of its template against the final variable set of the
\* job's environment, which holds the job-name variable: no reference to the
\* job-name variable is left in it, and an unknown reference is left as it is;
\* the command's arguments are substituted against the same variable set.
C18_TemplatesAgainstFinalVariables ==
    /\ KwargsBuilt
        => \A k \in DOMAIN call.note_kwargs :
            plan.notes[CalledJob.note][k].is_str
                => /\ \A i \in DOMAIN call.note_kwargs[k].v :
                        call.note_kwargs[k].v[i] # "${OX_TASK_JOB_NAME}"
                   /\ call.executed
                        => call.note_kwargs[k].v =
                             SafeSubstitute(plan.notes[CalledJob.note][k].v,
                                            call.env_vars)
                   /\ \A i \in DOMAIN plan.notes[CalledJob.note][k].v :
                        plan.notes[CalledJob.note][k].v[i] = "${UNSET}"
                            => call.note_kwargs[k].v[i] = "${UNSET}"
    /\ Resolved
        => call.job_results.command =
             [i \in DOMAIN PrepareCommand(CalledJob.command) |->
                SafeSubstitute(PrepareCommand(CalledJob.command)[i], call.env_vars)]

\* C19: in the environment handed to the job's command the job-name variable
\* OX_TASK_JOB_NAME equals the name of the job being run, also when the job's
\* environment declares a variable of that name.
C19_JobNameVariable ==
    Resolved => call.env_vars["OX_TASK_JOB_NAME"] = <<call.job_name>>

\* the venv's executable directory of the job of the latest call
CalledVenvBin == JobDir(call.job_name) \o <<"/venv/bin">>

\* C20 as claimed: the PATH handed to the job's command is the venv's bin
\* directory, the path separator and the inherited PATH, for every environment,
\* one that declares PATH included.
C20_PathOntoInherited ==
    Resolved
        => call.env_vars["PATH"] = CalledVenvBin \o <<":">> \o os_environ["PATH"]

\* C20: the PATH handed to the job's command is the venv's bin directory, the
\* path separator and the PATH of the resolved variable set: the inherited
\* PATH, or, when the environment declares PATH, the value that declaration
\* resolved to.
C20_PathOntoResolved ==
    Resolved
        => LET vs == CalledEnv.variables
               declared == {k \in DOMAIN vs : vs[k][1] = "PATH"}
           IN /\ declared = {}
                    => call.env_vars["PATH"] =
                         CalledVenvBin \o <<":">> \o os_environ["PATH"]
              /\ \A k \in declared :
                    call.env_vars["PATH"] =
                        CalledVenvBin \o <<":">>
                        \o SafeSubstitute(vs[k][2], ResolvedSoFar(vs, k))

\* C20 witness: the command of a job whose environment declares PATH was run
C20_Witness ==
    /\ Resolved
    /\ CalledJob.env = "shadow"
    /\ call.env_vars["PATH"] = CalledVenvBin \o <<":", "/opt/bin">>

\* C21: a command declared as one shell string, with the shell flag set,
\* reaches the executor unchanged: the command handed to subprocess.run holds
\* the declared string whole, not split into words and with its template
\* references untouched, so that the shell is given exactly that string.
C21_ShellStringUnchanged ==
    (Resolved /\ CalledJob.command.is_str /\ CalledJob.shell)
        => /\ Len(call.job_results.command) = 1
           /\ call.job_results.command[1] = CalledJob.command.parts

\* the job's command and shell flag do not fit: a list with the shell, or a
\* string or an empty argument vector without it
BreaksShape(job) ==
    \/ job.shell /\ ~job.command.is_str
    \/ ~job.shell /\ (job.command.is_str \/ job.command.parts = <<>>)

\* C22: no command is started for a job that breaks the shape invariant: the
\* call for such a job of the plan ends in status error and starts no process.
C22_ShapeInvariantEnforced ==
    (CalledJobExists /\ BreaksShape(CalledJob))
        => /\ StepsOf(call.ev, "spawn") = {}
           /\ call.job_results.status = "error"

(***************************************************************************)
(* Loading.  A load is the caller's latest call of the loader, on a file   *)
(* written from its plan.                                                  *)
(***************************************************************************)
Loaded == last_op.op = "parse"

\* the file can be read: a known suffix, text that parses, a mapping on top
Readable(source) ==
    source.suffix \in {".json", ".py"} /\ source.wellformed /\ source.top = "mapping"

\* the collection of a plan under a top-level key
CollectionOf(p, key) ==
    CASE key = "envs" -> p.envs [] key = "notes" -> p.notes [] OTHER -> p.jobs

\* C23: loading a source that holds any subset of the three top-level
\* collections (its jobs, if given, complete) succeeds; each collection it
\* holds is loaded as given and each absent one is an empty mapping
C23_SubsetOfCollectionsLoads ==
    (/\ Loaded
     /\ Readable(last_op.source)
     /\ ~last_op.source.extra
     /\ "jobs" \in last_op.source.keys => last_op.source.jobs = "declared")
        => /\ last_op.raised = NoExc
           /\ \A key \in TopKeys :
                CollectionOf(last_op.plan, key) =
                    IF key \in last_op.source.keys
                    THEN CollectionOf(plan, key) ELSE EmptyDict

C23_Witness ==
    /\ Loaded
    /\ last_op.source.suffix = ".json"
    /\ last_op.source.wellformed
    /\ last_op.source.keys = {"jobs"}
    /\ last_op.source.jobs = "declared"
    /\ ~last_op.source.extra
    /\ last_op.raised = NoExc
    /\ last_op.plan.jobs # <<>>
    /\ last_op.plan.envs = EmptyDict
    /\ last_op.plan.notes = EmptyDict

\* C24: loading a JSON document that has a top-level key other than envs,
\* notes and jobs fails and produces no plan
C24_UnknownTopLevelKeyFails ==
    (/\ Loaded
     /\ last_op.source.suffix = ".json"
     /\ Readable(last_op.source)
     /\ last_op.source.extra)
        => /\ last_op.raised # NoExc
           /\ last_op.plan = NoPlan

\* C25: loading a plan in which jobs give no note field, or name an env that
\* is not in envs, succeeds
C25_NoteOptionalAtLoad ==
    (/\ Loaded
     /\ Readable(last_op.source)
     /\ "jobs" \in last_op.source.keys
     /\ last_op.source.jobs \in {"declared", "without_note"})
        => last_op.raised = NoExc

\* the source is malformed JSON, of an unsupported file type, or holds a
\* value of the wrong shape
CannotBeParsed(source) ==
    \/ source.suffix = ".txt"
    \/ source.suffix = ".json" /\ ~source.wellformed
    \/ source.top # "mapping"
    \/ "jobs" \in source.keys /\ source.jobs = "as_list"

\* C26: the `run` command started on a plan source that cannot be parsed
\* creates no sandbox and ends with exit status 1 and the error reported;
\* a run that ended so has started no job, executed no command and
\* dispatched no notification
C26_UnparsedPlanAborts ==
    /\ [](run_pc = "aborted"
            => /\ last_op.op = "run"
               /\ last_op.raised # NoExc
               /\ exit_code = 1
               /\ call = NoCall
               /\ run_log = <<>>
               /\ all_results = EmptyDict)
    /\ [][(run_pc = "idle" /\ run_pc' # "idle")
            => \A re_raise \in BOOLEAN, source \in RunSources :
                (CannotBeParsed(source) /\ RunStart(re_raise, source))
                    => /\ run_pc' = "aborted"
                       /\ fs' = fs
                       /\ last_op'.source = source]_vars

C26_Witness ==
    /\ run_pc = "aborted"
    /\ last_op.source.suffix = ".json"
    /\ ~last_op.source.wellformed
    /\ last_op.raised.type = "JSONDecodeError"
    /\ exit_code = 1
    /\ \E j \in DOMAIN fs : fs[j].exists

(***************************************************************************)
(* The notifier registry, as a library caller uses it.                     *)
(***************************************************************************)
Registered == last_op.op = "add"

UniqueNames(funcs) ==
    \A i, j \in DOMAIN funcs : funcs[i].name = funcs[j].name => i = j

\* C27: registering a lookup under a taken name fails and the registry is
\* as it was, entry for entry; registering under a fresh name appends it;
\* the names in the registry are always unique
C27_RegisterUniqueName ==
    /\ UniqueNames(lookup_funcs)
    /\ Registered =>
            IF last_op.reg.name \in LookupNames(last_op.before)
            THEN /\ last_op.raised.type = "ValueError"
                 /\ lookup_funcs = last_op.before
            ELSE /\ last_op.raised = NoExc
                 /\ lookup_funcs = Append(last_op.before, last_op.reg)

\* a second lookup for "plugin" is refused while the first one, with another
\* functor, stands behind the builtin lookup
C27_Witness ==
    /\ Registered
    /\ last_op.reg = [name |-> "plugin", functor |-> "builtin"]
    /\ last_op.raised.type = "ValueError"
    /\ lookup_funcs = << [name |-> "__default__", functor |-> "builtin"],
                         [name |-> "plugin", functor |-> "plugin"] >>

Found == last_op.op = "find"

\* what the lookups callers registered (every entry but "__default__") give
\* for a name, in registration order: the first result that is not None
ExplicitResult(funcs, name) ==
    FindNoter(SelectSeq(funcs, LAMBDA entry : entry.name # "__default__"), name)

\* C28: when a registered lookup resolves a name, find_noter returns the
\* result of the first such lookup, whether or not the builtin set resolves
\* the name too
C28_RegisteredBeforeBuiltin ==
    (Found /\ ExplicitResult(lookup_funcs, last_op.name) # NoKlass)
        => last_op.result = ExplicitResult(lookup_funcs, last_op.name)

\* C29: a name that no registered lookup resolves and that is not one of the
\* three builtin notifiers is not found
C29_BuiltinSetIsFixed ==
    (/\ Found
     /\ ExplicitResult(lookup_funcs, last_op.name) = NoKlass
     /\ last_op.name \notin BuiltinNotifiers)
        => last_op.raised.type = "KeyError"

(***************************************************************************)
(* The plan across calls of run_job.                                       *)
(***************************************************************************)
\* this step is a call of run_job, direct or from the loop of `run`
RunJobStep == call' # call /\ call' # NoCall

\* C30: no call of run_job, however it ends, changes the task plan: its
\* environments with their variables as declared, its notes and its jobs
\* stay what was loaded
C30_PlanNeverMutated ==
    [][RunJobStep => plan' = plan]_vars

\* a call resolved B from A and substituted the note's path, and the plan
\* still declares both as templates
C30_Witness ==
    /\ Resolved
    /\ CalledJob.env = "ordered"
    /\ call.env_vars["B"] = <<"1", "-2">>
    /\ plan.envs["ordered"].variables[2] = <<"B", <<"$A", "-2">> >>
    /\ KwargsBuilt
    /\ call.note_kwargs["path"].v # plan.notes[CalledJob.note]["path"].v

(***************************************************************************)
(* The result of a call.                                                   *)
(***************************************************************************)
\* the keys of a complete job result
ResultKeys == {"status", "exit_code", "output", "stderr", "cwd", "command"}

\* C31: the result a call of run_job returns, and the result it hands to
\* notify_result, has every key of a complete result, whatever the outcome
C31_ResultIsComplete ==
    Called => /\ call.returned => ResultKeys \subseteq DOMAIN call.result
              /\ StepsOf(call.ev, "notify_result") # {}
                    => ResultKeys \subseteq DOMAIN call.job_results

(***************************************************************************)
(* The strict run.                                                         *)
(***************************************************************************)
StrictRun == run_strict /\ run_pc \in {"loop", "done", "crashed"}

\* C32: in a run with --re-raise every result collected is a success, and
\* once a job's result is not success the process has ended at that job:
\* its notify_result was entered, the loop did not advance, and no step of a
\* later job of the plan was taken
C32_StrictStopsAtFirstFailure ==
    StrictRun =>
        /\ \A j \in DOMAIN all_results : all_results[j].status = "success"
        /\ (Called /\ call.job_results.status # "success")
            => /\ run_pc = "crashed"
               /\ exit_code # 0
               /\ run_next = JobIndex(plan, call.job_name)
               /\ \A i \in DOMAIN run_log :
                    JobIndex(plan, run_log[i].job) <= run_next
               /\ \E i \in DOMAIN run_log :
                    /\ run_log[i].job = call.job_name
                    /\ run_log[i].op = "notify_result"

\* the first of two jobs exits non-zero, its notifier delivers, and the run
\* ends there with the second job untouched
C32_Witness ==
    /\ StrictRun
    /\ run_pc = "crashed"
    /\ Len(plan.jobs) = 2
    /\ run_next = 1
    /\ call.job_results.status = "failed"
    /\ call.raised.type = "CalledProcessError"
    /\ \E i \in DOMAIN call.ev :
            call.ev[i].op = "notify" /\ call.ev[i].arg[2] = "delivered"
    /\ ~fs[plan.jobs[2].name].exists

(***************************************************************************)
(* The notifier's keyword configuration.                                   *)
(***************************************************************************)
\* C33: the keyword arguments built for a notifier are the entries of its
\* note except class_name: the str entries substituted against the call's
\* variables, the others as declared
C33_KwargsExcludeSelector ==
    KwargsBuilt =>
        /\ DOMAIN call.note_kwargs =
                DOMAIN plan.notes[CalledJob.note] \ {"class_name"}
        /\ \A k \in DOMAIN call.note_kwargs :
                call.note_kwargs[k] =
                    IF plan.notes[CalledJob.note][k].is_str
                    THEN StrVal(SafeSubstitute(plan.notes[CalledJob.note][k].v,
                                               call.env_vars))
                    ELSE plan.notes[CalledJob.note][k]

(***************************************************************************)
(* Sandboxes across calls.                                                 *)
(***************************************************************************)
\* the sandbox has its venv and every requirement its environment declares
Provisioned(sb, env_config) ==
    /\ sb.exists
    /\ sb.venv
    /\ sb.pkgs = IF Truthy(env_config.requirements)
                 THEN env_config.requirements ELSE <<>>

\* C34: a call that executes the job's command does so in a sandbox whose
\* venv and declared requirements were all installed, whatever calls came
\* before it
C34_ExecutesOnlyWhenProvisioned ==
    (Resolved /\ StepsOf(call.ev, "spawn") # {})
        => Provisioned(fs[call.job_name], CalledEnv)

\* C35: a call for a job whose env is not in the plan's envs leaves every
\* sandbox as it was: no directory is made for the job
C35_UnknownEnvMakesNoSandbox ==
    (CalledJobExists /\ CalledJob.env \notin DOMAIN plan.envs)
        => fs = call.fs_before

(***************************************************************************)
(* Jobs without a note.                                                    *)
(***************************************************************************)
\* C36: a call for a job whose note is empty, the command having exited 0,
\* returns the execution result
C36_EmptyNoteStillReturns ==
    (/\ CalledJobExists
     /\ CalledJob.note = ""
     /\ call.job_results.status = "success")
        => /\ call.returned
           /\ call.result = call.job_results

(***************************************************************************)
(* Exit code and status.                                                   *)
(***************************************************************************)
Agrees(result) == (result.exit_code = 0) <=> (result.status = "success")

\* C37: in the result run_job produces for a job of the plan, and in every
\* result `run` collected, exit_code is 0 exactly when status is success; so
\* the exit status of a finished run, decided on status, is 0 exactly when
\* every collected exit_code is 0
C37_ExitCodeAgreesWithStatus ==
    /\ CalledJobExists => Agrees(call.job_results)
    /\ \A j \in DOMAIN all_results : Agrees(all_results[j])
    /\ run_pc = "done"
            => ((exit_code = 0) <=>
                    \A j \in DOMAIN all_results : all_results[j].exit_code = 0)

\* a finished run that collected a success and a result of the except clause
C37_Witness ==
    /\ run_pc = "done"
    /\ exit_code = 1
    /\ \E j \in DOMAIN all_results : all_results[j].status = "success"
    /\ \E j \in DOMAIN all_results :
            /\ all_results[j].status = "error"
            /\ all_results[j].command = <<>>

(***************************************************************************)
(* Variables across jobs.                                                  *)
(***************************************************************************)
\* every backtick command exits 0, as in a call that reached its command
ShellsSucceed ==
    [venv_ok |-> TRUE, pip_fail_at |-> 0, shell_ok |-> TRUE,
     proc |-> NotReached, deliver_ok |-> TRUE]

\* C38: no call changes the orchestrator's process environment, and the
\* variables a call ran its command with are those resolved from the
\* inherited environment, the job's name and the declarations of the job's
\* environment alone, whatever jobs ran before
C38_VariablesDoNotLeak ==
    /\ os_environ = OsEnviron
    /\ Resolved =>
            call.env_vars =
                PrefixPath(call.job_name,
                           PrepareEnvironmentVariables(call.job_name, CalledEnv,
                                                       OsEnviron,
                                                       ShellsSucceed).env_vars)

\* in one run, after a job that resolved A, a job whose B is declared before
\* its own A keeps the reference to A in B
C38_Witness ==
    /\ Resolved
    /\ call.in_run
    /\ call.job_name = "reversed_vars"
    /\ "ordered_vars" \in DOMAIN all_results
    /\ all_results["ordered_vars"].status = "success"
    /\ call.env_vars["B"] = <<"$A", "-2">>
    /\ "A" \notin DOMAIN os_environ

(***************************************************************************)
(* Notifier conditions.                                                    *)
(***************************************************************************)
\* the call built a TelegramNotifier whose conditions hold the given one
QuietNotifier(condition) ==
    /\ KwargsBuilt
    /\ plan.notes[CalledJob.note].class_name.v = <<"TelegramNotifier">>
    /\ "conditions" \in DOMAIN call.note_kwargs
    /\ \E i \in DOMAIN call.note_kwargs["conditions"].v :
            call.note_kwargs["conditions"].v[i] = condition

\* C39: a TelegramNotifier with the condition only_if_output_non_empty
\* sends nothing and raises nothing when the result's output is empty, and
\* sends its message when the output is not empty
C39_OnlyIfOutputNonEmpty ==
    QuietNotifier("only_if_output_non_empty") =>
        IF Truthy(call.job_results.output)
        THEN /\ call.notify_exc = NoExc
             /\ StepsOf(call.ev, "notify") # {}
        ELSE /\ call.notify_exc = NoExc
             /\ StepsOf(call.ev, "notify") = {}
====
